---- MODULE Spec2Model ----
(***************************************************************************)
(* A model of the stx header library (zethcxx/stx).                        *)
(*                                                                         *)
(*   range.hpp  the sentinel-terminated range engine (lines 1-197, the     *)
(*              current revision): range()/irange(), range_view,           *)
(*              range_iter, driven by a range-for loop                     *)
(*              and, apart, the earlier revision (lines 199-350)           *)
(*   mem.hpp    copy-based read/write over byte memory, align_up/down,     *)
(*              dump                                                       *)
(*   core.hpp   strong_type, normalize_addr                                *)
(*   fn.hpp     caller                                                     *)
(*   fs.hpp     setposfs / readfs / skipfs / last_read_ok                  *)
(*   time.hpp   UNIX timestamps                                            *)
(*                                                                         *)
(* Integers are modelled by their bit patterns 0 .. 2^Width - 1.  Every    *)
(* arithmetic result is reduced modulo 2^Width, the way the fixed-width    *)
(* types of core.hpp (u8 .. u64, i8 .. i64, usize, uptr) reduce theirs.    *)
(* The signed instance is the one of i8 / i16: `cur += step` is computed   *)
(* in int and converted back, which is defined to be modular, and the      *)
(* comparisons are numeric on the two's complement value.                  *)
(***************************************************************************)
EXTENDS Integers, Sequences, FiniteSets, TLC

VARIABLES
    \* ---- range.hpp -------------------------------------------------------
    ty,        \* the template argument Type of range_view<Type>
    args,      \* the call that built the descriptor: constructor and arguments
    view,      \* the range_view (from, to, step, dir, mode)
    it,        \* the range_iter of the running range-for loop
    other,     \* a second range_iter obtained from the same descriptor
    pc,        \* position of the range-for loop
    yielded,   \* the values the loop body has received so far
    prev,      \* <<s>> once a traversal has completed having yielded s
    \* ---- mem.hpp: read / write -------------------------------------------
    shape,     \* the template argument Addr of the read / write calls
    mem,       \* the bytes of the address space
    lastWrite, \* the last write<T>() call: base, off, size, value
    lastRead,  \* the last read<T>() call and what it returned
    \* ---- mem.hpp: align_up / align_down ----------------------------------
    alIn,      \* the operands (value, alignment)
    alOut,     \* the results computed so far: <<r>> once computed
    \* ---- core.hpp: strong_type -------------------------------------------
    sv,        \* a tagged value
    stMade,    \* how sv was constructed, and from what
    stOp,      \* the last operation applied to sv, its operand and its result
    \* ---- core.hpp: normalize_addr, fn.hpp: caller -------------------------
    adIn,      \* a bit pattern of pointer width
    adNorm,    \* per address shape: <<normalize_addr(x)>> once computed
    adCall,    \* per address shape: <<caller<Sig>(x)>> once built
    \* ---- fs.hpp ----------------------------------------------------------
    file,      \* the std::istream: data, get position, state bits
    fsLast,    \* the last call on the stream and what it returned
    \* ---- time.hpp ----------------------------------------------------------
    tmIn,      \* a u64 UNIX timestamp
    tp,        \* the sys_clock::time_point built from it
    tmOut,     \* the timestamps converted back: <<r>> once computed
    \* ---- mem.hpp: dump -----------------------------------------------------
    dmp        \* the running dump(): limit, loop variables, line buffer, reads, output

rangeVars == <<ty, args, view, it, other, pc, yielded, prev>>
memVars   == <<shape, mem, lastWrite, lastRead>>
alignVars == <<alIn, alOut>>
strongVars == <<sv, stMade, stOp>>
addrVars  == <<adIn, adNorm, adCall>>
fsVars    == <<file, fsLast>>
timeVars == <<tmIn, tp, tmOut>>
dumpVars == <<dmp>>
vars      == <<ty, args, view, it, other, pc, yielded, prev,
               shape, mem, lastWrite, lastRead, alIn, alOut,
               sv, stMade, stOp, adIn, adNorm, adCall, file, fsLast,
               tmIn, tp, tmOut,
               dmp>>

None == [none |-> TRUE]

(***************************************************************************)
(* Fixed-width integers                                                    *)
(***************************************************************************)
Width   == 3
Modulus == 2^Width
Half    == Modulus \div 2
Values  == 0 .. Modulus - 1

\* conversion of an integer to the Width-bit type (static_cast / assignment)
Wrap(x) == x % Modulus

\* core.hpp: the integral types, and the tagged type offset_t over usize
IntegralTypes == {"unsigned", "signed"}
TaggedTypes   == {"offset_t"}
Types         == IntegralTypes \cup TaggedTypes

Integral(T) == T \in IntegralTypes

\* the number a bit pattern stands for in base_type_t<T>
Num(T, x) == IF T = "signed" /\ x >= Half THEN x - Modulus ELSE x

\* strong_type<Type, Tag>{ v }: a primitive paired with its domain tag
strong_type(T, v) == [tag |-> T, value |-> v]

\* strong_type::get
get(st) == st.value

(***************************************************************************)
(* range.hpp: construction                                                 *)
(***************************************************************************)
Dirs  == {"Forward", "Backward"}
Modes == {"Inclusive", "Exclusive"}

\* details::unwrap
unwrap(T, value) == IF Integral(T) THEN value ELSE get(value)

\* range_view<Type>{ from, to, step, dir, mode }
range_view(from, to, step, dir, mode) ==
    [from |-> from, to |-> to, step |-> step, dir |-> dir, mode |-> mode]

\* range( to, dir, flag )
range_to(T, to, dir, flag) ==
    range_view(0, unwrap(T, to), 1, dir, flag)

\* range( from, to, step, dir, flag )
range(T, from, to, step, dir, flag) ==
    range_view(unwrap(T, from), unwrap(T, to), step, dir, flag)

\* range( from, to, dir, flag )
range_from_to(T, from, to, dir, flag) ==
    range(T, from, to, 1, dir, flag)

\* irange that leaves the mode at the default of range()
irange_Exclusive(T, from, to, step, dir) ==
    range(T, from, to, step, dir, "Exclusive")

\* irange( from, to, step, dir )
irange(T, from, to, step, dir) ==
    range(T, from, to, step, dir, "Inclusive")

\* irange( to, dir )
irange_to(T, to, dir) ==
    range_to(T, to, dir, "Inclusive")

(***************************************************************************)
(* range.hpp: range_iter and range_view::begin                             *)
(***************************************************************************)
\* operator* yielding the end of the range in place of the cursor
Deref_End(T, i) == IF Integral(T) THEN i.cur ELSE strong_type(T, i.end)

\* range_iter::operator*
Deref(T, i) == IF Integral(T) THEN i.cur ELSE strong_type(T, i.cur)

\* operator++ that also lengthens the step
Inc_StepGrows(T, i) ==
    IF i.dir = "Forward"
        THEN [i EXCEPT !.cur = Wrap(i.cur + i.step), !.step = Wrap(i.step + 1)]
        ELSE [i EXCEPT !.cur = Wrap(i.cur - i.step), !.step = Wrap(i.step + 1)]

\* range_iter::operator++
Inc(T, i) ==
    IF i.dir = "Forward"
        THEN [i EXCEPT !.cur = Wrap(i.cur + i.step)]
        ELSE [i EXCEPT !.cur = Wrap(i.cur - i.step)]

\* operator== with the Forward / Exclusive test off by one (> for >=)
EqSentinel_OffByOne(T, i) ==
    IF i.dir = "Forward"
        THEN Num(T, i.cur) > Num(T, i.end)
        ELSE IF i.mode = "Inclusive"
                 THEN Num(T, i.cur) <  Num(T, i.end)
                 ELSE Num(T, i.cur) <= Num(T, i.end)

\* range_iter::operator==( range_sentinel )
EqSentinel(T, i) ==
    IF i.dir = "Forward"
        THEN IF i.mode = "Inclusive"
                 THEN Num(T, i.cur) >  Num(T, i.end)
                 ELSE Num(T, i.cur) >= Num(T, i.end)
        ELSE IF i.mode = "Inclusive"
                 THEN Num(T, i.cur) <  Num(T, i.end)
                 ELSE Num(T, i.cur) <= Num(T, i.end)

\* range_view::begin
begin(v) ==
    [cur |-> v.from, end |-> v.to, step |-> v.step, dir |-> v.dir, mode |-> v.mode]

(***************************************************************************)
(* The calls a program can make to build a descriptor                      *)
(***************************************************************************)
\* a value of type T with the given bit pattern, as the caller passes it
Arg(T, x) == IF Integral(T) THEN x ELSE strong_type(T, x)

Call(c, from, to, step, dir, mode) ==
    [ctor |-> c, from |-> from, to |-> to, step |-> step, dir |-> dir, mode |-> mode]

Calls(T) ==
    {Call("range", Arg(T, f), Arg(T, t), s, d, m) :
        f \in Values, t \in Values, s \in Values, d \in Dirs, m \in Modes}
    \cup {Call("range_to", Arg(T, 0), Arg(T, t), 1, d, m) :
        t \in Values, d \in Dirs, m \in Modes}
    \cup {Call("range_from_to", Arg(T, f), Arg(T, t), 1, d, m) :
        f \in Values, t \in Values, d \in Dirs, m \in Modes}
    \cup {Call("irange", Arg(T, f), Arg(T, t), s, d, "Inclusive") :
        f \in Values, t \in Values, s \in Values, d \in Dirs}
    \cup {Call("irange_to", Arg(T, 0), Arg(T, t), 1, d, "Inclusive") :
        t \in Values, d \in Dirs}

\* the descriptor the call returns
Construct(T, a) ==
    CASE a.ctor = "range"         -> range(T, a.from, a.to, a.step, a.dir, a.mode)
      [] a.ctor = "range_to"      -> range_to(T, a.to, a.dir, a.mode)
      [] a.ctor = "range_from_to" -> range_from_to(T, a.from, a.to, a.dir, a.mode)
      [] a.ctor = "irange"        -> irange(T, a.from, a.to, a.step, a.dir)
      [] a.ctor = "irange_to"     -> irange_to(T, a.to, a.dir)

(***************************************************************************)
(* The range-for loop:                                                     *)
(*     for ( auto i = view.begin(); !( i == view.end() ); ++i ) body( *i ) *)
(***************************************************************************)
\* the loop is followed for at most MaxYield values: one more than the type
\* has, so that a cursor coming back to a value it had is seen
MaxYield == Modulus + 1

InitRange ==
    /\ ty \in Types
    /\ args \in Calls(ty)
    /\ view = Construct(ty, args)
    /\ it = None /\ other = None
    /\ pc = "idle"
    /\ yielded = <<>>
    /\ prev = <<>>
    /\ shape = None /\ mem = None /\ lastWrite = None /\ lastRead = None
    /\ alIn = None /\ alOut = None
    /\ sv = None /\ stMade = None /\ stOp = None
    /\ adIn = None /\ adNorm = None /\ adCall = None
    /\ file = None /\ fsLast = None
    /\ tmIn = None /\ tp = None /\ tmOut = None
    /\ dmp = None

\* view.begin(): a traversal starts, or starts again
Begin ==
    /\ pc \in {"idle", "done", "body"}
    /\ it' = begin(view)
    /\ pc' = "test"
    /\ yielded' = <<>>
    /\ prev' = IF pc = "done" THEN <<yielded>> ELSE prev
    /\ UNCHANGED <<ty, args, other, view, memVars, alignVars, strongVars, addrVars, fsVars, timeVars, dumpVars>>

\* i == view.end()
Test ==
    /\ pc = "test"
    /\ pc' = IF EqSentinel(ty, it) THEN "done" ELSE "body"
    /\ UNCHANGED <<ty, args, other, view, it, yielded, prev, memVars, alignVars, strongVars, addrVars, fsVars, timeVars, dumpVars>>

\* *i, handed to the loop body
Yield ==
    /\ pc = "body"
    /\ Len(yielded) < MaxYield
    /\ yielded' = Append(yielded, Deref(ty, it))
    /\ pc' = "inc"
    /\ UNCHANGED <<ty, args, other, view, it, prev, memVars, alignVars, strongVars, addrVars, fsVars, timeVars, dumpVars>>

\* ++i on an iterator that steps the descriptor's own `from`
Advance_Aliased ==
    /\ pc = "inc"
    /\ it' = Inc(ty, it)
    /\ view' = [view EXCEPT !.from = it'.cur]
    /\ pc' = "test"
    /\ UNCHANGED <<ty, args, other, yielded, prev, memVars, alignVars, strongVars, addrVars, fsVars, timeVars, dumpVars>>

\* ++i
Advance ==
    /\ pc = "inc"
    /\ it' = Inc(ty, it)
    /\ pc' = "test"
    /\ UNCHANGED <<ty, args, other, view, yielded, prev, memVars, alignVars, strongVars, addrVars, fsVars, timeVars, dumpVars>>

\* view.begin() once more, for an iterator the loop does not advance
BeginOther ==
    /\ other = None
    /\ other' = begin(view)
    /\ UNCHANGED <<ty, args, view, it, pc, yielded, prev,
                   memVars, alignVars, strongVars, addrVars, fsVars, timeVars, dumpVars>>

NextRange == Begin \/ Test \/ Yield \/ Advance \/ BeginOther

SpecRange == InitRange /\ [][NextRange]_vars

(***************************************************************************)
(* range.hpp, the earlier revision (lines 199-350): range()/irange() over  *)
(* std::integral types, the direction taken from the order of from and to, *)
(* an operator++ that stops the cursor at `end`, and operator!= as the     *)
(* loop test.                                                              *)
(***************************************************************************)
\* range_iter::Flag
Flag == {"Forward", "Backward", "Inclusive", "NonInclusive"}

\* range_view<Type>{ from, to, step, direction, inclusive }
range_view_earlier(from, to, step, direction, inclusive) ==
    [from |-> from, to |-> to, step |-> step,
     direction |-> direction, inclusive |-> inclusive]

\* range( to )
range_to_earlier(T, to) ==
    range_view_earlier(0, to, 1, "Forward", "NonInclusive")

\* range( from, to, step ) that keeps a step of 0
range_earlier_KeepZero(T, from, to, step) ==
    range_view_earlier(from, to, step,
                       IF Num(T, from) <= Num(T, to) THEN "Forward" ELSE "Backward",
                       "NonInclusive")

\* range( from, to, step )
range_earlier(T, from, to, step) ==
    range_view_earlier(from, to, IF step = 0 THEN 1 ELSE step,
                       IF Num(T, from) <= Num(T, to) THEN "Forward" ELSE "Backward",
                       "NonInclusive")

\* irange( from, to, step )
irange_earlier(T, from, to, step) ==
    range_view_earlier(from, to, IF step = 0 THEN 1 ELSE step,
                       IF Num(T, from) <= Num(T, to) THEN "Forward" ELSE "Backward",
                       "Inclusive")

\* range_view::begin
begin_earlier(v) ==
    [cur |-> v.from, end |-> v.to, step |-> v.step,
     direction |-> v.direction, inclusive |-> v.inclusive]

\* range_iter::operator*
Deref_earlier(T, i) == i.cur

\* operator++ without the stop at `end`
Inc_earlier_NoStop(T, i) ==
    IF i.direction = "Forward"
        THEN [i EXCEPT !.cur = Wrap(i.cur + i.step)]
        ELSE [i EXCEPT !.cur = Wrap(i.cur - i.step)]

\* range_iter::operator++
Inc_earlier(T, i) ==
    IF i.direction = "Forward"
        THEN IF \/ Num(T, i.cur) > Num(T, i.end)
                \/ Num(T, i.end) - Num(T, i.cur) < Num(T, i.step)
                 THEN [i EXCEPT !.cur = i.end]
                 ELSE [i EXCEPT !.cur = Wrap(i.cur + i.step)]
        ELSE IF \/ Num(T, i.cur) < Num(T, i.end)
                \/ Num(T, i.cur) - Num(T, i.end) < Num(T, i.step)
                 THEN [i EXCEPT !.cur = i.end]
                 ELSE [i EXCEPT !.cur = Wrap(i.cur - i.step)]

\* range_iter::operator!=( range_sentinel )
NeSentinel_earlier(T, i) ==
    IF i.inclusive = "Inclusive"
        THEN IF i.direction = "Forward"
                 THEN Num(T, i.cur) <= Num(T, i.end)
                 ELSE Num(T, i.cur) >= Num(T, i.end)
        ELSE i.cur # i.end

\* the calls of the earlier revision
Calls_earlier ==
    {[ctor |-> "range_to", from |-> 0, to |-> t, step |-> 1] : t \in Values}
    \cup {[ctor |-> c, from |-> f, to |-> t, step |-> s] :
            c \in {"range", "irange"}, f \in Values, t \in Values, s \in Values}

Construct_earlier(T, c) ==
    CASE c.ctor = "range_to" -> range_to_earlier(T, c.to)
      [] c.ctor = "range"    -> range_earlier(T, c.from, c.to, c.step)
      [] c.ctor = "irange"   -> irange_earlier(T, c.from, c.to, c.step)

InitEarlier ==
    /\ ty \in IntegralTypes
    /\ args \in Calls_earlier
    /\ view = Construct_earlier(ty, args)
    /\ it = None
    /\ other = None
    /\ pc = "idle"
    /\ yielded = <<>>
    /\ prev = <<>>
    /\ shape = None /\ mem = None /\ lastWrite = None /\ lastRead = None
    /\ alIn = None /\ alOut = None
    /\ sv = None /\ stMade = None /\ stOp = None
    /\ adIn = None /\ adNorm = None /\ adCall = None
    /\ file = None /\ fsLast = None
    /\ tmIn = None /\ tp = None /\ tmOut = None
    /\ dmp = None

\* view.begin(): the range-for loop starts
BeginEarlier ==
    /\ pc = "idle"
    /\ it' = begin_earlier(view)
    /\ pc' = "test"
    /\ UNCHANGED <<ty, args, view, other, yielded, prev,
                   memVars, alignVars, strongVars, addrVars, fsVars, timeVars, dumpVars>>

\* i != view.end()
TestEarlier ==
    /\ pc = "test"
    /\ pc' = IF NeSentinel_earlier(ty, it) THEN "body" ELSE "done"
    /\ UNCHANGED <<ty, args, view, it, other, yielded, prev,
                   memVars, alignVars, strongVars, addrVars, fsVars, timeVars, dumpVars>>

\* *i, handed to the loop body
YieldEarlier ==
    /\ pc = "body"
    /\ Len(yielded) < MaxYield
    /\ yielded' = Append(yielded, Deref_earlier(ty, it))
    /\ pc' = "inc"
    /\ UNCHANGED <<ty, args, view, it, other, prev,
                   memVars, alignVars, strongVars, addrVars, fsVars, timeVars, dumpVars>>

\* ++i
AdvanceEarlier ==
    /\ pc = "inc"
    /\ it' = Inc_earlier(ty, it)
    /\ pc' = "test"
    /\ UNCHANGED <<ty, args, view, other, yielded, prev,
                   memVars, alignVars, strongVars, addrVars, fsVars, timeVars, dumpVars>>

NextEarlier == BeginEarlier \/ TestEarlier \/ YieldEarlier \/ AdvanceEarlier

SpecEarlier == InitEarlier /\ [][NextEarlier]_vars

(***************************************************************************)
(* core.hpp: address-like values and normalize_addr                        *)
(*                                                                         *)
(* The modelled memory is MemSize bytes lying across the middle of the     *)
(* address space, so that some of its addresses are negative as intptr_t.  *)
(* A byte has the values 0 .. MaxByte.                                     *)
(***************************************************************************)
MemSize == 3
MaxByte == 1

MemLo  == Half - 2
Region == MemLo .. MemLo + MemSize - 1
Bytes  == 0 .. MaxByte

\* the address_like shapes: pointer, std::uintptr_t, std::intptr_t, va_t
AddrKinds == {"pointer", "uptr", "iptr", "va_t"}

\* the value of shape k that holds the address a
AddrArg(k, a) ==
    CASE k = "pointer" -> a
      [] k = "uptr"    -> a
      [] k = "iptr"    -> Num("signed", a)
      [] k = "va_t"    -> strong_type("va_t", a)

\* normalize_addr that leaves an integer as it came
normalize_addr_NoCast(k, base) ==
    IF k = "va_t" THEN get(base) ELSE base

\* normalize_addr
normalize_addr(k, base) ==
    IF k = "pointer"
        THEN base
        ELSE IF k = "va_t"
            THEN Wrap(get(base))
            ELSE Wrap(base)

(***************************************************************************)
(* mem.hpp: copy-based read and write                                      *)
(*                                                                         *)
(* A value of a trivially copyable Type is its object representation: a    *)
(* sequence of sizeof(Type) bytes.                                         *)
(***************************************************************************)
\* sizeof(Type) of the payload types modelled (u8, u16); alignof = sizeof
Sizes == {1, 2}

ObjectReps(n) == [1 .. n -> Bytes]

\* std::memcpy( &value, src, n ): the n bytes at src
memcpy_from(m, src, n) == [k \in 1 .. n |-> m[src + k - 1]]

\* std::memcpy( dst, &value, n ): memory with the n bytes of value at dst
memcpy_to(m, dst, value, n) ==
    [x \in DOMAIN m |-> IF dst <= x /\ x < dst + n THEN value[x - dst + 1] ELSE m[x]]

\* read that leaves the offset out of the source address
read_NoOffset(m, k, base, off, n) ==
    memcpy_from(m, normalize_addr(k, base), n)

\* read<Type>( base, off )
read(m, k, base, off, n) ==
    memcpy_from(m, normalize_addr(k, base) + get(off), n)

\* read_raw<Type>( base, off ): a typed load.  At an address that is not a
\* multiple of alignof( Type ) the load is undefined: it yields the bytes
\* there, or it traps and yields nothing
read_raw(m, k, base, off, n) ==
    LET src == normalize_addr(k, base) + get(off)
    IN  IF src % n = 0
            THEN {memcpy_from(m, src, n)}
            ELSE {memcpy_from(m, src, n), <<>>}

\* write that also clears the bytes it was not given
write_ClearRest(m, k, base, off, value, n) ==
    LET dst == normalize_addr(k, base) + get(off)
    IN  [x \in DOMAIN m |-> IF dst <= x /\ x < dst + n THEN value[x - dst + 1] ELSE 0]

\* write<Type>( base, off, value )
write(m, k, base, off, value, n) ==
    memcpy_to(m, normalize_addr(k, base) + get(off), value, n)

\* the calls whose bytes all lie in the memory the caller owns
ValidAccess(a, off, n) ==
    /\ a \in Region
    /\ off \in 0 .. MemSize - 1
    /\ a + off + n <= MemLo + MemSize

InitMem ==
    /\ shape \in AddrKinds
    /\ mem \in [Region -> Bytes]
    /\ lastWrite = None
    /\ lastRead = None
    /\ ty = None /\ args = None /\ view = None /\ it = None /\ other = None
    /\ pc = "idle" /\ yielded = <<>> /\ prev = <<>>
    /\ alIn = None /\ alOut = None
    /\ sv = None /\ stMade = None /\ stOp = None
    /\ adIn = None /\ adNorm = None /\ adCall = None
    /\ file = None /\ fsLast = None
    /\ tmIn = None /\ tp = None /\ tmOut = None
    /\ dmp = None

\* write<Type>( base, off, value )
Write ==
    \E a \in Region, off \in 0 .. MemSize - 1, n \in Sizes :
        \E value \in ObjectReps(n) :
            LET base == AddrArg(shape, a)
            IN  /\ ValidAccess(a, off, n)
                /\ mem' = write(mem, shape, base, strong_type("offset_t", off), value, n)
                /\ lastWrite' = [base |-> base, off |-> off, size |-> n, value |-> value]
                /\ lastRead' = None
                /\ UNCHANGED <<shape, rangeVars, alignVars, strongVars, addrVars, fsVars, timeVars, dumpVars>>

\* read<Type>( base, off )
Read ==
    \E a \in Region, off \in 0 .. MemSize - 1, n \in Sizes :
        LET base == AddrArg(shape, a)
        IN  /\ ValidAccess(a, off, n)
            /\ lastRead' = [base |-> base, off |-> off, size |-> n, raw |-> FALSE,
                            value |-> read(mem, shape, base, strong_type("offset_t", off), n)]
            /\ UNCHANGED <<shape, mem, lastWrite, rangeVars, alignVars, strongVars, addrVars, fsVars, timeVars, dumpVars>>

\* read_raw<Type>( base, off )
ReadRaw ==
    \E a \in Region, off \in 0 .. MemSize - 1, n \in Sizes :
        LET base == AddrArg(shape, a)
        IN  /\ ValidAccess(a, off, n)
            /\ \E v \in read_raw(mem, shape, base, strong_type("offset_t", off), n) :
                  lastRead' = [base |-> base, off |-> off, size |-> n, raw |-> TRUE,
                               value |-> v]
            /\ UNCHANGED <<shape, mem, lastWrite, rangeVars, alignVars, strongVars, addrVars, fsVars, timeVars, dumpVars>>

NextMem == Write \/ Read \/ ReadRaw

SpecMem == InitMem /\ [][NextMem]_vars

(***************************************************************************)
(* mem.hpp: align_up / align_down                                          *)
(***************************************************************************)
\* x & y on the bit patterns
RECURSIVE BitAnd(_, _)
BitAnd(x, y) ==
    IF x = 0 \/ y = 0
        THEN 0
        ELSE (x % 2) * (y % 2) + 2 * BitAnd(x \div 2, y \div 2)

\* ~x in the Width-bit type
BitNot(x) == Modulus - 1 - x

\* align_up that adds the whole alignment before masking
align_up_AddWhole(value, alignment) ==
    BitAnd(Wrap(value + alignment), BitNot(Wrap(alignment - 1)))

\* align_up that masks without first adding alignment - 1
align_up_NoRound(value, alignment) ==
    BitAnd(value, BitNot(Wrap(alignment - 1)))

\* align_up( T value, T alignment )
align_up(value, alignment) ==
    BitAnd(Wrap(value + alignment - 1), BitNot(Wrap(alignment - 1)))

\* align_down that clears one bit only, the one below the alignment's
align_down_OneBit(value, alignment) ==
    BitAnd(value, BitNot(Wrap(alignment \div 2)))

\* align_down( T value, T alignment )
align_down(value, alignment) ==
    BitAnd(value, BitNot(Wrap(alignment - 1)))

\* align_up( strong_type<T, Tag> st, T alignment )
align_up_st(st, alignment) ==
    strong_type(st.tag, align_up(get(st), alignment))

\* the tagged align_down delegating to align_up
align_down_st_Up(st, alignment) ==
    strong_type(st.tag, align_up(get(st), alignment))

\* align_down( strong_type<T, Tag> st, T alignment )
align_down_st(st, alignment) ==
    strong_type(st.tag, align_down(get(st), alignment))

\* the unsigned type, and the tagged types over unsigned primitives
AlignTypes == {"unsigned", "offset_t", "rva_t", "va_t"}

\* the powers of two of the type
PowersOfTwo == {2^k : k \in 0 .. Width - 1}

InitAlign ==
    /\ \E T \in AlignTypes, v \in Values, a \in PowersOfTwo :
          alIn = [type |-> T,
                  value |-> IF T = "unsigned" THEN v ELSE strong_type(T, v),
                  alignment |-> a]
    /\ alOut = [up |-> <<>>, down |-> <<>>, upOfDown |-> <<>>]
    /\ shape = None /\ mem = None /\ lastWrite = None /\ lastRead = None
    /\ ty = None /\ args = None /\ view = None /\ it = None /\ other = None
    /\ pc = "idle" /\ yielded = <<>> /\ prev = <<>>
    /\ sv = None /\ stMade = None /\ stOp = None
    /\ adIn = None /\ adNorm = None /\ adCall = None
    /\ file = None /\ fsLast = None
    /\ tmIn = None /\ tp = None /\ tmOut = None
    /\ dmp = None

\* a call of align_up: overload resolution picks the primitive or the tagged form
AlignUp ==
    /\ alOut.up = <<>>
    /\ alOut' = [alOut EXCEPT !.up =
                    IF alIn.type = "unsigned"
                        THEN <<align_up(alIn.value, alIn.alignment)>>
                        ELSE <<align_up_st(alIn.value, alIn.alignment)>>]
    /\ UNCHANGED <<alIn, rangeVars, memVars, strongVars, addrVars, fsVars, timeVars, dumpVars>>

\* a call of align_down
AlignDown ==
    /\ alOut.down = <<>>
    /\ alOut' = [alOut EXCEPT !.down =
                    IF alIn.type = "unsigned"
                        THEN <<align_down(alIn.value, alIn.alignment)>>
                        ELSE <<align_down_st(alIn.value, alIn.alignment)>>]
    /\ UNCHANGED <<alIn, rangeVars, memVars, strongVars, addrVars, fsVars, timeVars, dumpVars>>

\* a call of align_up on what align_down returned
AlignUpOfDown ==
    /\ alOut.down # <<>>
    /\ alOut.upOfDown = <<>>
    /\ alOut' = [alOut EXCEPT !.upOfDown =
                    IF alIn.type = "unsigned"
                        THEN <<align_up(alOut.down[1], alIn.alignment)>>
                        ELSE <<align_up_st(alOut.down[1], alIn.alignment)>>]
    /\ UNCHANGED <<alIn, rangeVars, memVars, strongVars, addrVars, fsVars, timeVars, dumpVars>>

NextAlign == AlignUp \/ AlignDown \/ AlignUpOfDown

SpecAlign == InitAlign /\ [][NextAlign]_vars

(***************************************************************************)
(* fn.hpp: caller<Sig>( addr )                                             *)
(*                                                                         *)
(* A function pointer is modelled by its address; nullptr is address 0.    *)
(***************************************************************************)
\* caller_t<Sig>{ fn }
caller_t(fn) == [fn |-> fn]

\* caller<Sig>( addr )
caller(k, addr) == caller_t(normalize_addr(k, addr))

\* a caller object that tests true whatever it holds
caller_bool_Always(c) == TRUE

\* caller_t::operator bool
caller_bool(c) == c.fn # 0

\* one bit pattern, held by a value of each address-like shape
InitAddr ==
    /\ adIn \in Values
    /\ adNorm = [k \in AddrKinds |-> <<>>]
    /\ adCall = [k \in AddrKinds |-> [obj |-> <<>>, bool |-> <<>>]]
    /\ shape = None /\ mem = None /\ lastWrite = None /\ lastRead = None
    /\ ty = None /\ args = None /\ view = None /\ it = None /\ other = None
    /\ pc = "idle" /\ yielded = <<>> /\ prev = <<>>
    /\ alIn = None /\ alOut = None
    /\ sv = None /\ stMade = None /\ stOp = None
    /\ file = None /\ fsLast = None
    /\ tmIn = None /\ tp = None /\ tmOut = None
    /\ dmp = None

\* normalize_addr( x ) for the value x of shape k
Normalize ==
    \E k \in AddrKinds :
        /\ adNorm[k] = <<>>
        /\ adNorm' = [adNorm EXCEPT ![k] = <<normalize_addr(k, AddrArg(k, adIn))>>]
        /\ UNCHANGED <<adIn, adCall, rangeVars, memVars, alignVars, strongVars, fsVars, timeVars, dumpVars>>

\* caller<Sig>( x ) for the value x of shape k
Caller ==
    \E k \in AddrKinds :
        /\ adCall[k].obj = <<>>
        /\ adCall' = [adCall EXCEPT ![k].obj = <<caller(k, AddrArg(k, adIn))>>]
        /\ UNCHANGED <<adIn, adNorm, rangeVars, memVars, alignVars, strongVars, fsVars, timeVars, dumpVars>>

\* static_cast<bool>( c ) for a caller object c built before
CallerBool ==
    \E k \in AddrKinds :
        /\ adCall[k].obj # <<>>
        /\ adCall[k].bool = <<>>
        /\ adCall' = [adCall EXCEPT ![k].bool = <<caller_bool(adCall[k].obj[1])>>]
        /\ UNCHANGED <<adIn, adNorm, rangeVars, memVars, alignVars, strongVars, fsVars, timeVars, dumpVars>>

NextAddr == Normalize \/ Caller \/ CallerBool

SpecAddr == InitAddr /\ [][NextAddr]_vars

(***************************************************************************)
(* core.hpp: strong_type construction, access and arithmetic               *)
(*                                                                         *)
(* A value of "another integral type" is a number of a type one bit wider, *)
(* signed or unsigned.                                                     *)
(***************************************************************************)
StrongTypes == {"offset_t", "rva_t", "va_t"}

WideValues == -Modulus .. 2 * Modulus - 1

\* strong_type<Type, Tag>{}: the member initialiser `Type value{}`
strong_type_default(T) == [tag |-> T, value |-> 0]

\* construction from a wider integer that keeps the number as it is
strong_type_from_Unconverted(T, v) == [tag |-> T, value |-> v]

\* strong_type<Type, Tag>{ U v }: static_cast<value_type>( v )
strong_type_from(T, v) == [tag |-> T, value |-> Wrap(v)]

\* strong_type::operator Type
convert(st) == st.value

\* operator+( strong_type lhs, Type rhs )
plus(lhs, rhs) == [lhs EXCEPT !.value = Wrap(lhs.value + rhs)]

\* a subtraction that stops at zero
minus_Saturating(lhs, rhs) ==
    [lhs EXCEPT !.value = IF rhs > lhs.value THEN 0 ELSE lhs.value - rhs]

\* operator-( strong_type lhs, Type rhs )
minus(lhs, rhs) == [lhs EXCEPT !.value = Wrap(lhs.value - rhs)]

\* a difference of the numbers, not of the fixed-width values
difference_Unbounded(lhs, rhs) == lhs.value - rhs.value

\* operator-( strong_type lhs, strong_type rhs )
difference(lhs, rhs) == Wrap(lhs.value - rhs.value)

\* operator== (defaulted with operator<=>)
equal(lhs, rhs) == lhs.value = rhs.value

NoOp == [op |-> "none"]

\* a default-constructed value of each domain
InitStrong ==
    /\ \E T \in StrongTypes :
          /\ sv = strong_type_default(T)
          /\ stMade = [how |-> "default", from |-> <<>>]
    /\ stOp = NoOp
    /\ shape = None /\ mem = None /\ lastWrite = None /\ lastRead = None
    /\ ty = None /\ args = None /\ view = None /\ it = None /\ other = None
    /\ pc = "idle" /\ yielded = <<>> /\ prev = <<>>
    /\ alIn = None /\ alOut = None
    /\ adIn = None /\ adNorm = None /\ adCall = None
    /\ file = None /\ fsLast = None
    /\ tmIn = None /\ tp = None /\ tmOut = None
    /\ dmp = None

\* T{ v } for a v of the underlying type
ConstructValue ==
    \E v \in Values :
        /\ sv' = strong_type(sv.tag, v)
        /\ stMade' = [how |-> "value", from |-> <<v>>]
        /\ stOp' = NoOp
        /\ UNCHANGED <<rangeVars, memVars, alignVars, addrVars, fsVars, timeVars, dumpVars>>

\* T{ u } for a u of another integral type
ConstructFrom ==
    \E u \in WideValues :
        /\ sv' = strong_type_from(sv.tag, u)
        /\ stMade' = [how |-> "from", from |-> <<u>>]
        /\ stOp' = NoOp
        /\ UNCHANGED <<rangeVars, memVars, alignVars, addrVars, fsVars, timeVars, dumpVars>>

\* sv.get()
Get ==
    /\ stOp' = [op |-> "get", lhs |-> sv, result |-> get(sv)]
    /\ UNCHANGED <<sv, stMade, rangeVars, memVars, alignVars, addrVars, fsVars, timeVars, dumpVars>>

\* static_cast<Type>( sv )
Convert ==
    /\ stOp' = [op |-> "convert", lhs |-> sv, result |-> convert(sv)]
    /\ UNCHANGED <<sv, stMade, rangeVars, memVars, alignVars, addrVars, fsVars, timeVars, dumpVars>>

\* sv + n
Plus ==
    \E n \in Values :
        /\ stOp' = [op |-> "plus", lhs |-> sv, rhs |-> n, result |-> plus(sv, n)]
        /\ UNCHANGED <<sv, stMade, rangeVars, memVars, alignVars, addrVars, fsVars, timeVars, dumpVars>>

\* sv - n
Minus ==
    \E n \in Values :
        /\ stOp' = [op |-> "minus", lhs |-> sv, rhs |-> n, result |-> minus(sv, n)]
        /\ UNCHANGED <<sv, stMade, rangeVars, memVars, alignVars, addrVars, fsVars, timeVars, dumpVars>>

\* sv - b for a b of the same domain
Difference ==
    \E v \in Values :
        /\ stOp' = [op |-> "difference", lhs |-> sv, rhs |-> strong_type(sv.tag, v),
                    result |-> difference(sv, strong_type(sv.tag, v))]
        /\ UNCHANGED <<sv, stMade, rangeVars, memVars, alignVars, addrVars, fsVars, timeVars, dumpVars>>

\* (sv + n) - n == sv and (sv + n) - sv
PlusThenBack ==
    \E n \in Values :
        /\ stOp' = [op |-> "plus_back", lhs |-> sv, rhs |-> n,
                    result |-> [same |-> equal(minus(plus(sv, n), n), sv),
                                diff |-> difference(plus(sv, n), sv)]]
        /\ UNCHANGED <<sv, stMade, rangeVars, memVars, alignVars, addrVars, fsVars, timeVars, dumpVars>>

NextStrong ==
    \/ ConstructValue
    \/ ConstructFrom
    \/ Get
    \/ Convert
    \/ Plus
    \/ Minus
    \/ Difference
    \/ PlusThenBack

SpecStrong == InitStrong /\ [][NextStrong]_vars

(***************************************************************************)
(* fs.hpp: positioned reads on a std::istream                              *)
(*                                                                         *)
(* The stream is its data (FileSize bytes), its get position and its       *)
(* eofbit and failbit.  A seek past the end succeeds on some stream        *)
(* buffers and fails on others; the bytes of a value that a failed read    *)
(* did not store are indeterminate.                                        *)
(***************************************************************************)
FileSize == 4

\* the bytes stored in the file: the lowest and the highest byte value
FileBytes == {0, MaxByte}

\* the offsets passed: forward by 0, 1, 2 and, converted to streamoff, back by 1
Offsets == {0, 1, 2, Modulus - 1}

\* origin
Origins == {"begin", "current", "end"}

\* scast<std::streamoff>( offset.get() )
streamoff(v) == Num("signed", v)

\* std::ios::good (badbit is never set here)
good(f) == ~f.eof /\ ~f.fail

\* the position a seek by off relative to dir asks for
seek_target(f, off, dir) ==
    CASE dir = "begin"   -> off
      [] dir = "current" -> f.pos + off
      [] dir = "end"     -> FileSize + off

\* std::istream::seekg( off, dir ): the stream states it may leave
seekg(f, off, dir) ==
    LET c == [f EXCEPT !.eof = FALSE]
        t == seek_target(c, off, dir)
    IN  IF c.fail
            THEN {c}
            ELSE IF t < 0
                THEN {[c EXCEPT !.fail = TRUE]}
                ELSE IF t > FileSize
                    THEN {[c EXCEPT !.fail = TRUE], [c EXCEPT !.pos = t]}
                    ELSE {[c EXCEPT !.pos = t]}

\* the n bytes of the stream from position t on
bytes_at(f, t, n) == [k \in 1 .. n |-> f.data[t + k - 1]]

\* std::istream::read( &value, n ) into an uninitialised value: the stream
\* states it may leave and the value then found
file_read(f, n) ==
    LET avail == IF f.pos >= FileSize THEN 0 ELSE FileSize - f.pos
    IN  IF ~good(f)
            THEN {[file |-> [f EXCEPT !.fail = TRUE], value |-> junk] :
                     junk \in ObjectReps(n)}
            ELSE IF avail >= n
                THEN {[file |-> [f EXCEPT !.pos = f.pos + n],
                       value |-> bytes_at(f, f.pos, n)]}
                ELSE {[file |-> [f EXCEPT !.pos = f.pos + avail,
                                          !.eof = TRUE, !.fail = TRUE],
                       value |-> [k \in 1 .. n |->
                                     IF k <= avail THEN f.data[f.pos + k - 1]
                                                   ELSE junk[k]]] :
                         junk \in ObjectReps(n)}

\* setposfs( file, offset, dir )
setposfs(f, offset, dir) == seekg(f, streamoff(get(offset)), dir)

\* a readfs that reads wherever the stream stands
readfs_NoSeek(f, offset, dir, n) == file_read(f, n)

\* readfs<Type>( file, offset, dir ), sizeof( Type ) = n
readfs(f, offset, dir, n) ==
    UNION {file_read(g, n) : g \in setposfs(f, offset, dir)}

\* skipfs<Type>( file, offset ), sizeof( Type ) = n
skipfs(f, offset, n) == setposfs(f, offset, "current")

\* last_read_ok that looks at eofbit alone
last_read_ok_EofOnly(f) == ~f.eof

\* last_read_ok( file )
last_read_ok(f) == good(f) /\ ~f.eof

\* a freshly opened stream over any FileSize bytes
InitFs ==
    /\ \E d \in [0 .. FileSize - 1 -> FileBytes] :
          file = [data |-> d, pos |-> 0, eof |-> FALSE, fail |-> FALSE]
    /\ fsLast = [op |-> "none"]
    /\ shape = None /\ mem = None /\ lastWrite = None /\ lastRead = None
    /\ ty = None /\ args = None /\ view = None /\ it = None /\ other = None
    /\ pc = "idle" /\ yielded = <<>> /\ prev = <<>>
    /\ alIn = None /\ alOut = None
    /\ sv = None /\ stMade = None /\ stOp = None
    /\ adIn = None /\ adNorm = None /\ adCall = None
    /\ tmIn = None /\ tp = None /\ tmOut = None
    /\ dmp = None

Setposfs ==
    \E off \in Offsets, dir \in Origins :
        /\ file' \in setposfs(file, strong_type("offset_t", off), dir)
        /\ file'.pos <= FileSize + 1
        /\ fsLast' = [op |-> "setposfs", off |-> off, dir |-> dir]
        /\ UNCHANGED <<rangeVars, memVars, alignVars, strongVars, addrVars, timeVars, dumpVars>>

Readfs ==
    \E off \in Offsets, dir \in Origins, n \in Sizes :
        \E r \in readfs(file, strong_type("offset_t", off), dir, n) :
            /\ r.file.pos <= FileSize + 1
            /\ file' = r.file
            /\ fsLast' = [op |-> "readfs", off |-> off, dir |-> dir, n |-> n,
                          result |-> r.value]
            /\ UNCHANGED <<rangeVars, memVars, alignVars, strongVars, addrVars, timeVars, dumpVars>>

Skipfs ==
    \E off \in Offsets, n \in Sizes :
        /\ file' \in skipfs(file, strong_type("offset_t", off), n)
        /\ file'.pos <= FileSize + 1
        /\ fsLast' = [op |-> "skipfs", off |-> off, n |-> n]
        /\ UNCHANGED <<rangeVars, memVars, alignVars, strongVars, addrVars, timeVars, dumpVars>>

LastReadOk ==
    /\ fsLast' = [op |-> "last_read_ok", result |-> last_read_ok(file)]
    /\ UNCHANGED <<file, rangeVars, memVars, alignVars, strongVars, addrVars, timeVars, dumpVars>>

\* file.clear(), by the caller
Clear ==
    /\ file' = [file EXCEPT !.eof = FALSE, !.fail = FALSE]
    /\ fsLast' = [op |-> "clear"]
    /\ UNCHANGED <<rangeVars, memVars, alignVars, strongVars, addrVars, timeVars, dumpVars>>

NextFs == Setposfs \/ Readfs \/ Skipfs \/ LastReadOk \/ Clear

SpecFs == InitFs /\ [][NextFs]_vars

(***************************************************************************)
(* time.hpp: UNIX timestamps and sys_clock::time_point                     *)
(*                                                                         *)
(* A duration counts ticks in a signed integer of TimeWidth bits (the rep  *)
(* of std::chrono::seconds, milliseconds and sys_clock::duration), and a   *)
(* u64 timestamp has as many bits.  sys_clock::duration is finer than a    *)
(* millisecond: one millisecond is TicksPerMilli ticks.  Converting a      *)
(* duration to a finer one multiplies its count in the signed rep; where   *)
(* the product does not fit the multiplication is undefined: it wraps, or  *)
(* it traps and there is no time_point.                                    *)
(***************************************************************************)
MillisPerSecond == 2
TicksPerMilli   == 2

TimeWidth   == 2 * Width + 2
TimeModulus == 2 ^ TimeWidth
TimeValues  == 0 .. TimeModulus - 1

\* static_cast<u64>( count )
to_u64(x) == x % TimeModulus

\* the signed rep holding the bit pattern x
to_rep(x) ==
    IF x % TimeModulus >= TimeModulus \div 2
        THEN (x % TimeModulus) - TimeModulus
        ELSE x % TimeModulus

InRep(x) == -(TimeModulus \div 2) <= x /\ x <= TimeModulus \div 2 - 1

\* the implicit conversion of a duration to one `factor` times finer:
\* <<ticks>>, or <<>> where it trapped
finer(count, factor) ==
    IF InRep(count * factor)
        THEN {<<count * factor>>}
        ELSE {<<to_rep(count * factor)>>, <<>>}

\* std::chrono::duration_cast to a duration `factor` times coarser
duration_cast(ticks, factor) ==
    IF ticks >= 0 THEN ticks \div factor ELSE -((-ticks) \div factor)

\* from_unix_seconds( seconds )
from_unix_seconds(seconds) ==
    finer(to_rep(seconds), MillisPerSecond * TicksPerMilli)

\* from_unix_millis( millis )
from_unix_millis(millis) ==
    finer(to_rep(millis), TicksPerMilli)

\* to_unix_seconds( tp )
to_unix_seconds(ticks) ==
    to_u64(duration_cast(ticks, MillisPerSecond * TicksPerMilli))

\* to_unix_millis( tp )
to_unix_millis(ticks) ==
    to_u64(duration_cast(ticks, TicksPerMilli))

InitTime ==
    /\ tmIn \in TimeValues
    /\ tp = [from |-> "none", ticks |-> <<>>]
    /\ tmOut = [seconds |-> <<>>, millis |-> <<>>]
    /\ shape = None /\ mem = None /\ lastWrite = None /\ lastRead = None
    /\ ty = None /\ args = None /\ view = None /\ it = None /\ other = None
    /\ pc = "idle" /\ yielded = <<>> /\ prev = <<>>
    /\ alIn = None /\ alOut = None
    /\ sv = None /\ stMade = None /\ stOp = None
    /\ adIn = None /\ adNorm = None /\ adCall = None
    /\ file = None /\ fsLast = None
    /\ dmp = None

\* tp = from_unix_seconds( tmIn )
FromUnixSeconds ==
    /\ \E t \in from_unix_seconds(tmIn) : tp' = [from |-> "seconds", ticks |-> t]
    /\ tmOut' = [seconds |-> <<>>, millis |-> <<>>]
    /\ UNCHANGED <<tmIn, rangeVars, memVars, alignVars, strongVars, addrVars, fsVars, dumpVars>>

\* tp = from_unix_millis( tmIn )
FromUnixMillis ==
    /\ \E t \in from_unix_millis(tmIn) : tp' = [from |-> "millis", ticks |-> t]
    /\ tmOut' = [seconds |-> <<>>, millis |-> <<>>]
    /\ UNCHANGED <<tmIn, rangeVars, memVars, alignVars, strongVars, addrVars, fsVars, dumpVars>>

\* to_unix_seconds( tp )
ToUnixSeconds ==
    /\ tp.ticks # <<>>
    /\ tmOut' = [tmOut EXCEPT !.seconds = <<to_unix_seconds(tp.ticks[1])>>]
    /\ UNCHANGED <<tmIn, tp, rangeVars, memVars, alignVars, strongVars, addrVars, fsVars, dumpVars>>

\* to_unix_millis( tp )
ToUnixMillis ==
    /\ tp.ticks # <<>>
    /\ tmOut' = [tmOut EXCEPT !.millis = <<to_unix_millis(tp.ticks[1])>>]
    /\ UNCHANGED <<tmIn, tp, rangeVars, memVars, alignVars, strongVars, addrVars, fsVars, dumpVars>>

NextTime == FromUnixSeconds \/ FromUnixMillis \/ ToUnixSeconds \/ ToUnixMillis

SpecTime == InitTime /\ [][NextTime]_vars

(***************************************************************************)
(* mem.hpp: dump( base, limit )                                            *)
(*                                                                         *)
(* The line buffer is written through the pointer `iter`; dmp.line is what *)
(* the buffer holds in front of it and dmp.iter its index.  Characters are *)
(* modelled by their kind: "A" a digit of the address, "X" a hex digit of  *)
(* a byte, "c" the ASCII column's rendering of a byte, the rest literally. *)
(* Bytes are named by their index from base.  usize and uptr are PtrBytes  *)
(* bytes wide.  A write past the end of the buffer is undefined; the model *)
(* stops there, at pc = "overrun".                                         *)
(***************************************************************************)
PtrBytes == 2
MaxLimit == 33

BYTES_PER_LINE == 16
LinePadding    == 84

PTR_HEX_WIDTH == PtrBytes * 2
BufLen        == PTR_HEX_WIDTH + LinePadding
UsizeModulus  == 2 ^ (8 * PtrBytes)

COLOR_ADDR  == <<"ESC", "[", "3", "8", ";", "5", ";", "1", "2", "m">>
COLOR_RESET == <<"ESC", "[", "0", "m">>

\* n copies of the character c
Fill(c, n) == [k \in 1 .. n |-> c]

\* hex_ptr( iter, addr )
hex_ptr == Fill("A", PTR_HEX_WIDTH)

\* hex_byte( iter, mem[offset + idx] ), then ' '
hex_byte == <<"X", "X", " ">>

\* the line up to the hex columns
Prefix == COLOR_ADDR \o <<"0", "x">> \o hex_ptr \o COLOR_RESET \o <<":", " ">>

\* std::min<usize>( BYTES_PER_LINE, limit - offset )
line_bytes(limit, offset) ==
    IF (limit - offset) % UsizeModulus < BYTES_PER_LINE
        THEN (limit - offset) % UsizeModulus
        ELSE BYTES_PER_LINE

\* the padding that fills the missing hex columns
padding_Columns(n) == ((BYTES_PER_LINE - n) * 3) % UsizeModulus

\* const usize padding { BYTES_PER_LINE - line_bytes * 3 }
padding(n) == (BYTES_PER_LINE - n * 3) % UsizeModulus

\* the state after writing the characters s at iter
Put(d, s) ==
    IF d.iter + Len(s) > BufLen
        THEN [d EXCEPT !.pc = "overrun", !.iter = d.iter + Len(s)]
        ELSE [d EXCEPT !.line = d.line \o s, !.iter = d.iter + Len(s)]

\* std::memset( iter, c, n ); iter += n
Memset(d, c, n) ==
    IF d.iter + n > BufLen
        THEN [d EXCEPT !.pc = "overrun", !.iter = d.iter + n]
        ELSE Put(d, Fill(c, n))

InitDump ==
    /\ \E limit \in 0 .. MaxLimit :
          dmp = [limit |-> limit, offset |-> 0, pc |-> "loop", idx |-> 0,
                 iter |-> 0, line |-> <<>>, reads |-> {}, out |-> <<>>]
    /\ shape = None /\ mem = None /\ lastWrite = None /\ lastRead = None
    /\ ty = None /\ args = None /\ view = None /\ it = None /\ other = None
    /\ pc = "idle" /\ yielded = <<>> /\ prev = <<>>
    /\ alIn = None /\ alOut = None
    /\ sv = None /\ stMade = None /\ stOp = None
    /\ adIn = None /\ adNorm = None /\ adCall = None
    /\ file = None /\ fsLast = None
    /\ tmIn = None /\ tp = None /\ tmOut = None

\* for ( ; offset < limit; ): the loop test and the line's prefix
DumpLine ==
    /\ dmp.pc = "loop"
    /\ dmp' = IF dmp.offset < dmp.limit
                  THEN Put([dmp EXCEPT !.pc = "hex", !.idx = 0, !.iter = 0,
                                       !.line = <<>>],
                           Prefix)
                  ELSE [dmp EXCEPT !.pc = "done"]
    /\ UNCHANGED <<rangeVars, memVars, alignVars, strongVars, addrVars, fsVars, timeVars>>

\* the hex column loop: one byte
DumpHexByte ==
    /\ dmp.pc = "hex"
    /\ dmp.idx < line_bytes(dmp.limit, dmp.offset)
    /\ dmp' = Put([dmp EXCEPT !.reads = @ \cup {dmp.offset + dmp.idx},
                              !.idx = @ + 1],
                  hex_byte)
    /\ UNCHANGED <<rangeVars, memVars, alignVars, strongVars, addrVars, fsVars, timeVars>>

\* after the hex columns: the padding of a partial line, then '|'
DumpPadding ==
    /\ dmp.pc = "hex"
    /\ dmp.idx >= line_bytes(dmp.limit, dmp.offset)
    /\ LET n == line_bytes(dmp.limit, dmp.offset)
           p == IF n < BYTES_PER_LINE
                    THEN Memset(dmp, " ", padding(n))
                    ELSE dmp
       IN  dmp' = IF p.pc = "overrun"
                      THEN p
                      ELSE Put([p EXCEPT !.pc = "str", !.idx = 0], <<"|">>)
    /\ UNCHANGED <<rangeVars, memVars, alignVars, strongVars, addrVars, fsVars, timeVars>>

\* the string column loop: one position
DumpChar ==
    /\ dmp.pc = "str"
    /\ dmp.idx < BYTES_PER_LINE
    /\ dmp' = Put([dmp EXCEPT !.reads = @ \cup {dmp.offset + dmp.idx},
                              !.idx = @ + 1],
                  IF dmp.idx < line_bytes(dmp.limit, dmp.offset)
                      THEN <<"c">> ELSE <<" ">>)
    /\ UNCHANGED <<rangeVars, memVars, alignVars, strongVars, addrVars, fsVars, timeVars>>

\* the closing '|', std::println of the line, offset += BYTES_PER_LINE
DumpPrint ==
    /\ dmp.pc = "str"
    /\ dmp.idx >= BYTES_PER_LINE
    /\ LET p == Put(dmp, <<"|">>)
       IN  dmp' = IF p.pc = "overrun"
                      THEN p
                      ELSE [p EXCEPT !.out = Append(@, p.line),
                                     !.offset = (@ + BYTES_PER_LINE) % UsizeModulus,
                                     !.pc = "loop"]
    /\ UNCHANGED <<rangeVars, memVars, alignVars, strongVars, addrVars, fsVars, timeVars>>

NextDump == DumpLine \/ DumpHexByte \/ DumpPadding \/ DumpChar \/ DumpPrint

SpecDump == InitDump /\ [][NextDump]_vars

(***************************************************************************)
(* The range-for loop as a function: the first values, at most n, that the *)
(* loop started at iterator i hands to its body, and whether it has        *)
(* reached the sentinel by then.                                           *)
(***************************************************************************)
RECURSIVE LoopYield(_, _, _)
LoopYield(T, i, n) ==
    IF n = 0 \/ EqSentinel(T, i)
        THEN <<>>
        ELSE <<Deref(T, i)>> \o LoopYield(T, Inc(T, i), n - 1)

RECURSIVE LoopEnds(_, _, _)
LoopEnds(T, i, n) ==
    \/ EqSentinel(T, i)
    \/ n > 0 /\ LoopEnds(T, Inc(T, i), n - 1)

\* no value occurs twice in s
Distinct(s) == \A j, k \in 1 .. Len(s) : j # k => s[j] # s[k]

\* the stop condition of the termination table for a cursor c
StopTable(T, c, end, dir, mode) ==
    \/ dir = "Forward"  /\ mode = "Inclusive" /\ Num(T, c) >  Num(T, end)
    \/ dir = "Forward"  /\ mode = "Exclusive" /\ Num(T, c) >= Num(T, end)
    \/ dir = "Backward" /\ mode = "Inclusive" /\ Num(T, c) <  Num(T, end)
    \/ dir = "Backward" /\ mode = "Exclusive" /\ Num(T, c) <= Num(T, end)

(***************************************************************************)
(* C1: a range_iter equals the sentinel exactly when the stop condition of *)
(* the table holds (Forward: cur > end inclusive, cur >= end exclusive;    *)
(* Backward: cur < end inclusive, cur <= end exclusive), and no value the  *)
(* range-for loop yields satisfies the stop condition of its range.        *)
(***************************************************************************)
C1_SentinelTable ==
    /\ it # None =>
          (EqSentinel(ty, it) <=> StopTable(ty, it.cur, it.end, it.dir, it.mode))
    /\ \A k \in 1 .. Len(yielded) :
          ~StopTable(ty, unwrap(ty, yielded[k]), view.to, view.dir, view.mode)

\* a traversal that yielded twice and then met the sentinel
C1_Witness ==
    /\ pc = "done"
    /\ Len(yielded) >= 2
    /\ StopTable(ty, it.cur, it.end, it.dir, it.mode)

(***************************************************************************)
(* C2: for integral Type, from <= to and step >= 1, the Forward range      *)
(* yields exactly from, from + step, from + 2*step, ... : every such value *)
(* below `to` (Exclusive) or not above it (Inclusive), and nothing else.   *)
(***************************************************************************)
\* how many of from, from + step, ... lie before the end
CountUp(f, t, s, mode) ==
    IF mode = "Inclusive" THEN (t - f) \div s + 1 ELSE (t - f + s - 1) \div s

C2_Case ==
    /\ args.ctor = "range"
    /\ Integral(ty)
    /\ view.dir = "Forward"
    /\ Num(ty, view.from) <= Num(ty, view.to)
    /\ Num(ty, view.step) >= 1

C2_ForwardSequence ==
    C2_Case =>
        LET f == Num(ty, view.from)
            t == Num(ty, view.to)
            s == Num(ty, view.step)
        IN  /\ Len(yielded) <= CountUp(f, t, s, view.mode)
            /\ \A k \in 1 .. Len(yielded) : Num(ty, yielded[k]) = f + (k - 1) * s
            /\ pc = "done" => Len(yielded) = CountUp(f, t, s, view.mode)

(***************************************************************************)
(* C3: for integral Type, from >= to and step >= 1, the Backward range     *)
(* yields exactly from, from - step, from - 2*step, ... : every such value *)
(* above `to` (Exclusive) or not below it (Inclusive), and nothing else.   *)
(***************************************************************************)
C3_Case ==
    /\ args.ctor = "range"
    /\ Integral(ty)
    /\ view.dir = "Backward"
    /\ Num(ty, view.from) >= Num(ty, view.to)
    /\ Num(ty, view.step) >= 1

C3_BackwardSequence ==
    C3_Case =>
        LET f == Num(ty, view.from)
            t == Num(ty, view.to)
            s == Num(ty, view.step)
        IN  /\ Len(yielded) <= CountUp(t, f, s, view.mode)
            /\ \A k \in 1 .. Len(yielded) : Num(ty, yielded[k]) = f - (k - 1) * s
            /\ pc = "done" => Len(yielded) = CountUp(t, f, s, view.mode)

(***************************************************************************)
(* C4: every traversal with step >= 1 reaches the sentinel after finitely  *)
(* many advances.  The loop is deterministic and the iterator's parameters *)
(* are fixed, so it reaches the sentinel iff its cursor never comes back   *)
(* to a value the loop has already yielded.                                *)
(***************************************************************************)
C4_Terminates ==
    Num(ty, view.step) >= 1 => Distinct(yielded)

(***************************************************************************)
(* C5: step is a magnitude: with a nonzero step every advance of a Forward *)
(* traversal makes the cursor strictly greater, every advance of a         *)
(* Backward traversal strictly smaller.                                    *)
(***************************************************************************)
C5_StepIsMagnitude ==
    [][(pc = "inc" /\ pc' = "test" /\ view.step # 0) =>
          IF view.dir = "Forward"
              THEN Num(ty, it'.cur) > Num(ty, it.cur)
              ELSE Num(ty, it'.cur) < Num(ty, it.cur)]_vars

(***************************************************************************)
(* C6: the descriptor is immutable under traversal: it stays the one the   *)
(* call built, every begin() returns an iterator whose cursor is `from`,   *)
(* and a traversal after a completed one yields the identical sequence.    *)
(***************************************************************************)
IsPrefix(s, t) == Len(s) <= Len(t) /\ \A k \in 1 .. Len(s) : s[k] = t[k]

C6_DescriptorImmutable ==
    /\ view = Construct(ty, args)
    /\ (pc = "test" /\ yielded = <<>>) => it.cur = view.from
    /\ prev # <<>> =>
          /\ IsPrefix(yielded, prev[1])
          /\ Len(yielded) >= 1 => yielded[1] = prev[1][1]
          /\ pc = "done" => yielded = prev[1]

\* a second complete traversal, of at least two values
C6_Witness ==
    /\ pc = "done"
    /\ prev # <<>>
    /\ Len(prev[1]) >= 2
    /\ yielded = prev[1]

(***************************************************************************)
(* C7: a range over a tagged type yields a tagged value at every step, and *)
(* the underlying values are, element by element, the values the range     *)
(* over the raw unsigned integer yields for the same from, to, step,       *)
(* direction and mode.                                                     *)
(***************************************************************************)
\* the raw-integer call with the same arguments
RawView ==
    Construct("unsigned", [args EXCEPT !.from = unwrap(ty, args.from),
                                       !.to   = unwrap(ty, args.to)])

C7_TaggedMatchesRaw ==
    ~Integral(ty) =>
        LET raw == LoopYield("unsigned", begin(RawView), Len(yielded))
        IN  /\ view = RawView
            /\ Len(raw) = Len(yielded)
            /\ \A k \in 1 .. Len(yielded) :
                  /\ yielded[k] = strong_type(ty, get(yielded[k]))
                  /\ get(yielded[k]) = raw[k]
            /\ pc = "done" => LoopEnds("unsigned", begin(RawView), Len(yielded))

\* a completed traversal of a tagged range that stepped by more than one
C7_Witness ==
    /\ ~Integral(ty)
    /\ pc = "done"
    /\ Len(yielded) >= 3
    /\ view.step >= 2

(***************************************************************************)
(* C8: the convenience constructors yield what the explicit one yields:    *)
(* range(to, dir) as range(0, to, 1, dir, Exclusive); range(from, to, dir) *)
(* as range(from, to, 1, dir, Exclusive); irange(from, to, step, dir) as   *)
(* range(from, to, step, dir, Inclusive); irange(to, dir) as               *)
(* range(0, to, 1, dir, Inclusive).                                        *)
(***************************************************************************)
\* the explicit descriptor the claim names for the call
ExplicitView ==
    LET zero == Arg(ty, 0)
    IN  CASE args.ctor = "range_to" /\ args.mode = "Exclusive" ->
                 range(ty, zero, args.to, 1, args.dir, "Exclusive")
          [] args.ctor = "range_from_to" /\ args.mode = "Exclusive" ->
                 range(ty, args.from, args.to, 1, args.dir, "Exclusive")
          [] args.ctor = "irange" ->
                 range(ty, args.from, args.to, args.step, args.dir, "Inclusive")
          [] args.ctor = "irange_to" ->
                 range(ty, zero, args.to, 1, args.dir, "Inclusive")
          [] OTHER -> view

C8_ConvenienceEquivalent ==
    /\ yielded = LoopYield(ty, begin(ExplicitView), Len(yielded))
    /\ pc = "done" => LoopEnds(ty, begin(ExplicitView), Len(yielded))

\* a completed traversal of a range built by a convenience constructor
C8_Witness ==
    /\ args.ctor \in {"range_to", "irange_to", "irange", "range_from_to"}
    /\ pc = "done"
    /\ Len(yielded) >= 3

(***************************************************************************)
(* C9: round trip: write<T>(base, off, x) followed by the copy-based       *)
(* read<T>(base, off) returns x, at aligned and at misaligned addresses.   *)
(***************************************************************************)
SameAccess(r, w) ==
    /\ r.base = w.base
    /\ r.off = w.off
    /\ r.size = w.size

C9_RoundTrip ==
    (/\ lastWrite # None
     /\ lastRead # None
     /\ ~lastRead.raw
     /\ SameAccess(lastRead, lastWrite)) =>
        lastRead.value = lastWrite.value

\* a two-byte value read back from an odd address, at a nonzero offset
C9_Witness ==
    /\ lastWrite # None
    /\ lastRead # None
    /\ ~lastRead.raw
    /\ SameAccess(lastRead, lastWrite)
    /\ lastWrite.size = 2
    /\ lastWrite.off > 0
    /\ (normalize_addr(shape, lastWrite.base) + lastWrite.off) % 2 = 1
    /\ lastWrite.value = <<1, 0>>
    /\ lastRead.value = <<1, 0>>

(***************************************************************************)
(* C10: align_down(v, a) <= v <= align_up(v, a) for every value v of the   *)
(* unsigned type and every power of two a.                                 *)
(***************************************************************************)
AlignPrimitive == alIn # None /\ alIn.type = "unsigned"

C10_AlignBounds ==
    AlignPrimitive =>
        /\ alOut.down # <<>> => alOut.down[1] <= alIn.value
        /\ alOut.up # <<>> => alIn.value <= alOut.up[1]

\* C10 as amended: align_down(v, a) <= v always; v <= align_up(v, a) when
\* v + a - 1 does not exceed the type's maximum, and otherwise align_up
\* wraps around to 0
C10_AlignBoundsNoWrap ==
    AlignPrimitive =>
        /\ alOut.down # <<>> => alOut.down[1] <= alIn.value
        /\ alOut.up # <<>> =>
              IF alIn.value + alIn.alignment - 1 <= Modulus - 1
                  THEN alIn.value <= alOut.up[1]
                  ELSE alOut.up[1] = 0

\* an unaligned value with both results computed, strictly between them
C10_Witness ==
    /\ AlignPrimitive
    /\ alIn.alignment = 4
    /\ alOut.down # <<>>
    /\ alOut.up # <<>>
    /\ alOut.down[1] < alIn.value
    /\ alIn.value < alOut.up[1]

(***************************************************************************)
(* C11: align_up(align_down(v, a), a) = align_down(v, a) for every value v *)
(* of the unsigned type and every power of two a: an aligned value is a    *)
(* fixed point of align_up.                                                *)
(***************************************************************************)
C11_AlignedFixedPoint ==
    (AlignPrimitive /\ alOut.upOfDown # <<>>) => alOut.upOfDown = alOut.down

\* align_up applied to the result of rounding the maximum down by more than 1
C11_Witness ==
    /\ AlignPrimitive
    /\ alIn.value = Modulus - 1
    /\ alIn.alignment = 4
    /\ alOut.upOfDown # <<>>
    /\ alOut.upOfDown[1] = Modulus - 4

(***************************************************************************)
(* C12: the tagged overloads of align_up / align_down keep the domain: the *)
(* result carries the tag of the operand, and its underlying value is the  *)
(* primitive align_up / align_down of the operand's underlying value.      *)
(***************************************************************************)
AlignTagged == alIn # None /\ alIn.type # "unsigned"

C12_AlignKeepsTag ==
    AlignTagged =>
        /\ alOut.up # <<>> =>
              alOut.up[1] = strong_type(alIn.type,
                                        align_up(get(alIn.value), alIn.alignment))
        /\ alOut.down # <<>> =>
              alOut.down[1] = strong_type(alIn.type,
                                          align_down(get(alIn.value), alIn.alignment))

\* an unaligned rva_t rounded both ways, to two different rva_t values
C12_Witness ==
    /\ AlignTagged
    /\ alIn.type = "rva_t"
    /\ alOut.up # <<>>
    /\ alOut.down # <<>>
    /\ alOut.up[1].tag = "rva_t"
    /\ alOut.down[1].tag = "rva_t"
    /\ get(alOut.down[1]) < get(alIn.value)
    /\ get(alIn.value) < get(alOut.up[1])

(***************************************************************************)
(* C13: normalize_addr returns the same uptr for a raw pointer, a          *)
(* uintptr_t and a va_t that hold the same bit pattern; for an intptr_t it *)
(* returns the value converted to uptr, modulo 2^Width.  The argument is   *)
(* taken by value and nothing else is written.                             *)
(***************************************************************************)
C13_NormalizeAgrees ==
    adNorm # None =>
        /\ \A k \in {"pointer", "uptr", "va_t"} :
              adNorm[k] # <<>> => adNorm[k] = <<adIn>>
        /\ adNorm["iptr"] # <<>> =>
              /\ adNorm["iptr"][1] \in Values
              /\ adNorm["iptr"][1] = Num("signed", adIn) % Modulus

\* a negative intptr_t and the three other shapes of its bit pattern, all
\* normalised
C13_Witness ==
    /\ adNorm # None
    /\ \A k \in AddrKinds : adNorm[k] # <<>>
    /\ Num("signed", adIn) < 0
    /\ adNorm["iptr"] = adNorm["pointer"]

(***************************************************************************)
(* C20: caller<Sig>(addr) holds the function pointer whose address is      *)
(* normalize_addr(addr), for every address-like addr; its conversion to    *)
(* bool is true exactly when that address is not null, so                  *)
(* caller<Sig>(uintptr_t{0}) tests false.                                  *)
(***************************************************************************)
C20_CallerHoldsAddress ==
    adCall # None =>
        \A k \in AddrKinds :
            /\ adCall[k].obj # <<>> =>
                  adCall[k].obj[1].fn = normalize_addr(k, AddrArg(k, adIn))
            /\ adCall[k].bool # <<>> =>
                  /\ adCall[k].bool[1] = (adCall[k].obj[1].fn # 0)
                  /\ (k = "uptr" /\ adIn = 0) => adCall[k].bool[1] = FALSE

\* caller<Sig>( uintptr_t{0} ) tested
C20_Witness ==
    /\ adCall # None
    /\ adIn = 0
    /\ adCall["uptr"].obj = <<caller_t(0)>>
    /\ adCall["uptr"].bool = <<FALSE>>

(***************************************************************************)
(* C14: for tagged a and b of one domain, a - b is a bare primitive, the   *)
(* difference a.get() - b.get() in the underlying type: modulo 2^Width     *)
(* when b is the larger.                                                   *)
(***************************************************************************)
C14_DifferenceIsPrimitive ==
    (stOp # None /\ stOp.op = "difference") =>
        /\ stOp.lhs.tag = stOp.rhs.tag
        /\ stOp.result \in Values
        /\ stOp.result = (get(stOp.lhs) - get(stOp.rhs)) % Modulus
        /\ get(stOp.lhs) >= get(stOp.rhs) =>
              stOp.result = get(stOp.lhs) - get(stOp.rhs)

\* a difference with the larger value on the right
C14_Witness ==
    /\ stOp # None
    /\ stOp.op = "difference"
    /\ get(stOp.lhs) = 1
    /\ get(stOp.rhs) = 2
    /\ stOp.result = Modulus - 1

(***************************************************************************)
(* C15: a + n and a - n are tagged values of the domain of a, holding      *)
(* a.get() + n and a.get() - n modulo 2^Width; a itself is not changed;    *)
(* and (a + n) - n == a, (a + n) - a == n.                                 *)
(***************************************************************************)
C15_PlusMinus ==
    (stOp # None /\ stOp.op \in {"plus", "minus", "plus_back"}) =>
        /\ sv = stOp.lhs
        /\ stOp.op = "plus" =>
              stOp.result = strong_type(sv.tag, (get(sv) + stOp.rhs) % Modulus)
        /\ stOp.op = "minus" =>
              stOp.result = strong_type(sv.tag, (get(sv) - stOp.rhs) % Modulus)
        /\ stOp.op = "plus_back" =>
              /\ stOp.result.same
              /\ stOp.result.diff = stOp.rhs

\* a sum that wraps, a subtraction that wraps, and a wrapped sum taken back
C15_Witness ==
    /\ stOp # None
    /\ \/ /\ stOp.op = "plus"
          /\ get(sv) + stOp.rhs >= Modulus
          /\ get(stOp.result) < get(sv)
       \/ /\ stOp.op = "minus"
          /\ stOp.rhs > get(sv)
          /\ get(stOp.result) > get(sv)
    /\ sv.tag = "rva_t"

(***************************************************************************)
(* C16: a default-constructed tagged value holds 0; get() and the explicit *)
(* conversion of a tagged value built from v return v; building from a     *)
(* value of another integral type stores it converted to the underlying    *)
(* type, modulo 2^Width when it does not fit.                              *)
(***************************************************************************)
C16_ConstructAndAccess ==
    stMade # None =>
        /\ stMade.how = "default" => sv.value = 0
        /\ stMade.how = "value" => sv.value = stMade.from[1]
        /\ stMade.how = "from" =>
              /\ sv.value \in Values
              /\ sv.value = stMade.from[1] % Modulus
        /\ (stOp.op \in {"get", "convert"} /\ stMade.how = "value") =>
              stOp.result = stMade.from[1]
        /\ stOp.op \in {"get", "convert"} => stOp.result = sv.value

\* a value of the wider type that does not fit, stored and read back
C16_Witness ==
    /\ stMade # None
    /\ stMade.how = "from"
    /\ stMade.from[1] = Modulus + 2
    /\ sv.tag = "rva_t"
    /\ stOp.op = "get"
    /\ stOp.result = 2

(***************************************************************************)
(* C17: skipfs<Type>(file, offset) moves the read position forward by      *)
(* offset elements of Type: on a good stream with that much data ahead,    *)
(* the position after the call is the position before plus                 *)
(* offset * sizeof(Type).                                                  *)
(***************************************************************************)
C17_SkipsElements ==
    [][(/\ fsLast'.op = "skipfs"
        /\ good(file)
        /\ streamoff(fsLast'.off) >= 0
        /\ file.pos + streamoff(fsLast'.off) * fsLast'.n <= FileSize)
       => file'.pos = file.pos + streamoff(fsLast'.off) * fsLast'.n]_vars

(***************************************************************************)
(* C18: readfs<Type>(file, offset, dir) seeks, then reads sizeof(Type)     *)
(* bytes: on a good stream with the data there, whatever the position was, *)
(* the value is the bytes at [target, target + sizeof(Type)) and the       *)
(* position afterwards is target + sizeof(Type); with origin::current and  *)
(* offset 0 the target is the position before, so such reads return        *)
(* consecutive records.                                                    *)
(***************************************************************************)
C18_ReadfsSeeksThenReads ==
    [][(fsLast'.op = "readfs" /\ good(file)) =>
          LET t == seek_target(file, streamoff(fsLast'.off), fsLast'.dir)
              n == fsLast'.n
          IN  (t >= 0 /\ t + n <= FileSize) =>
                  /\ fsLast'.result = [k \in 1 .. n |-> file.data[t + k - 1]]
                  /\ file'.pos = t + n
                  /\ good(file')]_vars

\* the second two-byte record of the file, read with origin::current and
\* offset 0 where it differs from the first, leaving the stream good at
\* the end of the data
C18_Witness ==
    /\ fsLast # None
    /\ fsLast.op = "readfs"
    /\ fsLast.dir = "current"
    /\ fsLast.off = 0
    /\ fsLast.n = 2
    /\ file.pos = 4
    /\ good(file)
    /\ fsLast.result = <<file.data[2], file.data[3]>>
    /\ fsLast.result # <<file.data[0], file.data[1]>>

(***************************************************************************)
(* C19: last_read_ok(file) is true exactly when the stream is good and not *)
(* at end-of-file; a readfs that finds fewer than sizeof(Type) bytes at    *)
(* its target leaves it false, and setposfs, readfs and skipfs keep it     *)
(* false until the stream state is cleared.                                *)
(***************************************************************************)
C19_LastReadOkSticky ==
    /\ []((fsLast # None /\ fsLast.op = "last_read_ok") =>
             (fsLast.result <=> (~file.eof /\ ~file.fail)))
    /\ [][(/\ fsLast'.op = "readfs"
           /\ good(file)
           /\ LET t == seek_target(file, streamoff(fsLast'.off), fsLast'.dir)
              IN  t >= 0 /\ t + fsLast'.n > FileSize)
          => ~last_read_ok(file')]_vars
    /\ [][(/\ ~last_read_ok(file)
           /\ fsLast'.op \in {"setposfs", "readfs", "skipfs"})
          => ~last_read_ok(file')]_vars

\* after a short read and a further seek, which cleared eofbit, the function
\* has returned false
C19_Witness ==
    /\ fsLast # None
    /\ fsLast.op = "last_read_ok"
    /\ fsLast.result = FALSE
    /\ ~file.eof
    /\ file.fail
    /\ file.pos = FileSize

(***************************************************************************)
(* C24: for every power of two a and unsigned v, align_down(v, a) is the   *)
(* greatest multiple of a that is <= v and align_up(v, a) the least        *)
(* multiple of a that is >= v; both are multiples of a, both return v when *)
(* v is a multiple of a, both are the identity for a = 1.                  *)
(***************************************************************************)
Multiples(a) == {m \in Values : m % a = 0}

GreatestBelow(r, v, a) ==
    /\ r \in Multiples(a)
    /\ r <= v
    /\ \A m \in Multiples(a) : m <= v => m <= r

LeastAbove(r, v, a) ==
    /\ r \in Multiples(a)
    /\ r >= v
    /\ \A m \in Multiples(a) : m >= v => m >= r

C24_AlignExtremal ==
    AlignPrimitive =>
        /\ alOut.down # <<>> => GreatestBelow(alOut.down[1], alIn.value, alIn.alignment)
        /\ alOut.up # <<>> => LeastAbove(alOut.up[1], alIn.value, alIn.alignment)

\* C24 as amended: align_up(v, a) is the least multiple >= v when
\* v + a - 1 does not exceed the type's maximum; otherwise no multiple of a
\* that is >= v is representable and align_up(v, a) is 0.  The rest holds
\* for every v.
C24_AlignExtremalNoWrap ==
    AlignPrimitive =>
        /\ alOut.down # <<>> =>
              /\ GreatestBelow(alOut.down[1], alIn.value, alIn.alignment)
              /\ alIn.value \in Multiples(alIn.alignment) => alOut.down[1] = alIn.value
              /\ alIn.alignment = 1 => alOut.down[1] = alIn.value
        /\ alOut.up # <<>> =>
              /\ alOut.up[1] \in Multiples(alIn.alignment)
              /\ alIn.value \in Multiples(alIn.alignment) => alOut.up[1] = alIn.value
              /\ alIn.alignment = 1 => alOut.up[1] = alIn.value
              /\ IF alIn.value + alIn.alignment - 1 <= Modulus - 1
                     THEN LeastAbove(alOut.up[1], alIn.value, alIn.alignment)
                     ELSE /\ alOut.up[1] = 0
                          /\ ~\E m \in Multiples(alIn.alignment) : m >= alIn.value

\* an unaligned value rounded to the nearest multiples of 4 on both sides
C24_Witness ==
    /\ AlignPrimitive
    /\ alIn.alignment = 4
    /\ alIn.value = 3
    /\ alOut.down = <<0>>
    /\ alOut.up = <<4>>

(***************************************************************************)
(* C23: write<T>(base, off, x) changes exactly the sizeof(T) bytes at      *)
(* normalize_addr(base) + off and no other byte; read<T> and read_raw<T>   *)
(* change no byte.  Hence what read<T> returns at a location that a write  *)
(* does not overlap is the same after the write as before it, and a value  *)
(* written there survives any sequence of such writes.                     *)
(***************************************************************************)
Span(a, n) == a .. a + n - 1

C23_WriteFrame ==
    [][/\ (lastRead' = None /\ lastWrite' # None) =>
              LET w   == lastWrite'
                  dst == normalize_addr(shape, w.base) + w.off
              IN  /\ \A x \in Region :
                        mem'[x] = IF x \in Span(dst, w.size)
                                      THEN w.value[x - dst + 1]
                                      ELSE mem[x]
                  /\ \A a \in Region, n \in Sizes :
                        (ValidAccess(a, 0, n) /\ Span(a, n) \cap Span(dst, w.size) = {}) =>
                            read(mem', shape, AddrArg(shape, a), strong_type("offset_t", 0), n)
                              = read(mem, shape, AddrArg(shape, a), strong_type("offset_t", 0), n)
       /\ lastRead' # None => mem' = mem]_vars

\* a byte written between two bytes that hold another value; the byte after
\* it, read afterwards, still holds that value
C23_Witness ==
    /\ lastWrite # None
    /\ lastRead # None
    /\ lastWrite.size = 1
    /\ lastWrite.value = <<0>>
    /\ normalize_addr(shape, lastWrite.base) + lastWrite.off = MemLo + 1
    /\ mem[MemLo] = 1
    /\ normalize_addr(shape, lastRead.base) + lastRead.off = MemLo + 2
    /\ lastRead.value = <<1>>

(***************************************************************************)
(* C22: an iterator's parameters are fixed for the traversal: operator++   *)
(* changes the cursor only and leaves end, step, direction and mode as     *)
(* begin() set them; operator* and the sentinel comparison change nothing; *)
(* advancing one iterator does not change another iterator obtained from   *)
(* the same descriptor.                                                    *)
(***************************************************************************)
SameParameters(i, j) ==
    /\ i.end = j.end
    /\ i.step = j.step
    /\ i.dir = j.dir
    /\ i.mode = j.mode

C22_ParametersFixed ==
    /\ [](it # None => SameParameters(it, begin(view)))
    /\ [](other # None => other = begin(view))
    /\ [][(pc = "inc" /\ pc' = "test") =>
             /\ SameParameters(it', it)
             /\ other' = other
             /\ view' = view]_vars
    /\ [][(\/ pc = "body" /\ pc' = "inc"
           \/ pc = "test" /\ pc' \in {"done", "body"}) =>
             /\ it' = it
             /\ other' = other
             /\ view' = view]_vars

\* the loop's iterator advanced twice while a second iterator of the same
\* descriptor still stands at `from`
C22_Witness ==
    /\ it # None
    /\ other # None
    /\ Len(yielded) = 2
    /\ pc = "test"
    /\ it.cur # other.cur
    /\ other.cur = view.from
    /\ SameParameters(it, other)

(***************************************************************************)
(* C21: UNIX-time round trip: from_unix_seconds(s) is the time_point s     *)
(* seconds after the epoch and to_unix_seconds gives s back, for every u64 *)
(* s; to_unix_millis(from_unix_millis(m)) = m for every u64 m; and         *)
(* to_unix_seconds(from_unix_millis(m)) = m / 1000, truncated.             *)
(***************************************************************************)
C21_UnixRoundTrip ==
    tp # None =>
        /\ tp.from = "seconds" =>
              /\ tp.ticks = <<tmIn * MillisPerSecond * TicksPerMilli>>
              /\ tmOut.seconds # <<>> => tmOut.seconds = <<tmIn>>
        /\ tp.from = "millis" =>
              /\ tmOut.millis # <<>> => tmOut.millis = <<tmIn>>
              /\ tmOut.seconds # <<>> => tmOut.seconds = <<tmIn \div MillisPerSecond>>

\* the round trips where the timestamp, in ticks, fits the rep of the clock
UnixRoundTripInRange ==
    (tp # None /\ InRep(tmIn * MillisPerSecond * TicksPerMilli)) =>
        /\ tp.from = "seconds" =>
              /\ tp.ticks = <<tmIn * MillisPerSecond * TicksPerMilli>>
              /\ tmOut.seconds # <<>> => tmOut.seconds = <<tmIn>>
        /\ tp.from = "millis" =>
              /\ tmOut.millis # <<>> => tmOut.millis = <<tmIn>>
              /\ tmOut.seconds # <<>> => tmOut.seconds = <<tmIn \div MillisPerSecond>>

(***************************************************************************)
(* C25: in the earlier revision a step of 0 given to range(from, to, step) *)
(* or irange(from, to, step) is replaced by 1: the traversal yields what   *)
(* the traversal built with step 1 yields, and until the cursor is at the  *)
(* end every advance changes it.                                           *)
(***************************************************************************)
\* what a loop over iterator i has yielded after n steps of the body, and
\* whether it has then ended
RECURSIVE LoopYieldEarlier(_, _, _)
LoopYieldEarlier(T, i, n) ==
    IF n = 0 \/ ~NeSentinel_earlier(T, i)
        THEN <<>>
        ELSE <<Deref_earlier(T, i)>> \o LoopYieldEarlier(T, Inc_earlier(T, i), n - 1)

RECURSIVE AfterEarlier(_, _, _)
AfterEarlier(T, i, n) ==
    IF n = 0 \/ ~NeSentinel_earlier(T, i) THEN i ELSE AfterEarlier(T, Inc_earlier(T, i), n - 1)

WithStepOne == Construct_earlier(ty, [args EXCEPT !.step = 1])

C25_Case == args # None /\ args.ctor \in {"range", "irange"} /\ args.step = 0

C25_ZeroStepIsOne ==
    /\ [](C25_Case =>
             /\ view = WithStepOne
             /\ yielded = LoopYieldEarlier(ty, begin_earlier(WithStepOne), Len(yielded))
             /\ pc = "done" =>
                   ~NeSentinel_earlier(ty, AfterEarlier(ty, begin_earlier(WithStepOne),
                                                        Len(yielded))))
    /\ [][(C25_Case /\ pc = "inc" /\ it.cur # it.end) => it'.cur # it.cur]_vars

\* a completed exclusive traversal built with step 0: three values, one apart
C25_Witness ==
    /\ C25_Case
    /\ args.ctor = "range"
    /\ pc = "done"
    /\ Len(yielded) = 3
    /\ yielded[2] = (yielded[1] + 1) % Modulus
    /\ yielded[3] = (yielded[2] + 1) % Modulus

(***************************************************************************)
(* C26: in the earlier revision's range(from, to, step) with step >= 1     *)
(* over an unsigned type the direction is Forward when from <= to and      *)
(* Backward otherwise; the cursor stays in the closed interval between     *)
(* from and to, and an advance that would reach or pass `to` sets it to    *)
(* `to`.  So every exclusive traversal ends, having yielded exactly the    *)
(* values from + k * step (Forward) or from - k * step (Backward) that lie *)
(* strictly before `to`.                                                   *)
(***************************************************************************)
C26_Case == args # None /\ ty = "unsigned" /\ args.ctor = "range" /\ args.step >= 1

\* the number of values from, from +/- step, ... strictly before `to`
CountBefore(f, t, s) ==
    IF f <= t THEN (t - f + s - 1) \div s ELSE (f - t + s - 1) \div s

\* the k-th of them, k = 1, 2, ...
ValueAt(f, t, s, k) == IF f <= t THEN f + (k - 1) * s ELSE f - (k - 1) * s

C26_ClampedExclusive ==
    /\ [](C26_Case =>
             /\ view.direction = (IF args.from <= args.to THEN "Forward" ELSE "Backward")
             /\ it # None =>
                   IF args.from <= args.to
                       THEN args.from <= it.cur /\ it.cur <= args.to
                       ELSE args.to <= it.cur /\ it.cur <= args.from
             /\ Len(yielded) <= CountBefore(args.from, args.to, args.step)
             /\ \A k \in 1 .. Len(yielded) :
                   yielded[k] = ValueAt(args.from, args.to, args.step, k)
             /\ pc = "body" => Len(yielded) < CountBefore(args.from, args.to, args.step)
             /\ pc = "done" => Len(yielded) = CountBefore(args.from, args.to, args.step))
    /\ [][(C26_Case /\ pc = "inc") =>
             IF args.from <= args.to
                 THEN it'.cur = (IF it.cur + it.step >= it.end
                                     THEN it.end ELSE it.cur + it.step)
                 ELSE it'.cur = (IF it.cur - it.step <= it.end
                                     THEN it.end ELSE it.cur - it.step)]_vars

\* a completed backward traversal whose last advance stopped the cursor at
\* `to`, short of a whole step
C26_Witness ==
    /\ C26_Case
    /\ args.from = 7
    /\ args.to = 0
    /\ args.step = 3
    /\ pc = "done"
    /\ it.cur = 0
    /\ yielded = <<7, 4, 1>>

(***************************************************************************)
(* C27: a traversal of the earlier revision's irange(from, to, step) with  *)
(* step >= 1 terminates: it yields from, from +/- step, ... up to and      *)
(* including the last such value not beyond `to`, no value twice, and then *)
(* equals the sentinel.                                                    *)
(***************************************************************************)
C27_Case == args # None /\ ty = "unsigned" /\ args.ctor = "irange" /\ args.step >= 1

\* the number of values from, from +/- step, ... not beyond `to`
CountUpTo(f, t, s) ==
    IF f <= t THEN (t - f) \div s + 1 ELSE (f - t) \div s + 1

C27_InclusiveTerminates ==
    C27_Case =>
        /\ Distinct(yielded)
        /\ Len(yielded) <= CountUpTo(args.from, args.to, args.step)
        /\ \A k \in 1 .. Len(yielded) :
              yielded[k] = ValueAt(args.from, args.to, args.step, k)

(***************************************************************************)
(* C28: for every limit, while dump builds a line the write position stays *)
(* inside the line buffer of PTR_HEX_WIDTH + 84 bytes, on full lines and   *)
(* on a final partial line of 1 to 15 bytes: the padding of a partial line *)
(* is never negative or wrapped.                                           *)
(***************************************************************************)
C28_WriteStaysInBuffer ==
    dmp # None =>
        /\ dmp.pc # "overrun"
        /\ dmp.iter <= BufLen
        /\ Len(dmp.line) = dmp.iter

(***************************************************************************)
(* C29: dump(base, limit) reads only the bytes at indices [0, limit): no   *)
(* byte at an index >= limit on a final partial line, and dump(base, 0)    *)
(* reads nothing and prints nothing.                                       *)
(***************************************************************************)
C29_ReadsWithinLimit ==
    dmp # None =>
        /\ \A i \in dmp.reads : i < dmp.limit
        /\ dmp.limit = 0 => (dmp.reads = {} /\ dmp.out = <<>>)

(***************************************************************************)
(* C30: dump prints ceil(limit / 16) lines, each the address, ": ", 16     *)
(* three-character hex columns and a 16-character ASCII column between '|' *)
(* characters; a final partial line shows the remaining bytes only and is  *)
(* padded to the length of a full line, its ASCII column at the same       *)
(* position.                                                               *)
(***************************************************************************)
\* the line showing n bytes, laid out as a full line is
LineOf(n) ==
    Prefix
    \o [k \in 1 .. 3 * BYTES_PER_LINE |->
           IF k > 3 * n \/ k % 3 = 0 THEN " " ELSE "X"]
    \o <<"|">>
    \o [k \in 1 .. BYTES_PER_LINE |-> IF k <= n THEN "c" ELSE " "]
    \o <<"|">>

C30_LineFormat ==
    dmp # None =>
        /\ \A k \in 1 .. Len(dmp.out) :
              dmp.out[k] = LineOf(line_bytes(dmp.limit, (k - 1) * BYTES_PER_LINE))
        /\ dmp.pc \in {"hex", "str"} => Len(dmp.out) * BYTES_PER_LINE < dmp.limit
        /\ dmp.pc # "overrun"
        /\ dmp.pc = "done" =>
              Len(dmp.out) = (dmp.limit + BYTES_PER_LINE - 1) \div BYTES_PER_LINE

====
